---- MODULE Spec2Model ----
(***************************************************************************)
(* A model of the ntfp front end (src/compile.rs) and of the build driver  *)
(* (src/main.rs): tokenizer, recursive-descent parser, semantic analyzer,  *)
(* code generator and build_project.                                       *)
(*                                                                         *)
(* Text is a sequence of characters, each character a one-character string *)
(* (two characters outside ASCII are written by their code point).  A      *)
(* position is a byte offset, as in the source.                            *)
(***************************************************************************)
EXTENDS Integers, Sequences, FiniteSets, TLC

VARIABLES lx, ps, an, gn, bd

vars == <<lx, ps, an, gn, bd>>

\* The value of a component that a specification does not exercise.
Idle == [status |-> "idle"]

(***************************************************************************)
(* Generic helpers                                                         *)
(***************************************************************************)
None == <<>>

Some(v) == <<v>>

SeqsUpTo(S, n) == UNION {[1..k -> S] : k \in 0..n}

RECURSIVE Flatten(_)
Flatten(ss) == IF ss = <<>> THEN <<>> ELSE Head(ss) \o Flatten(Tail(ss))

SetMax(S) == CHOOSE x \in S : \A y \in S : y <= x

SetMin(S) == CHOOSE x \in S : \A y \in S : x <= y

(***************************************************************************)
(* Characters                                                              *)
(***************************************************************************)
LOWER == {"a","b","c","d","e","f","g","h","i","j","k","l","m",
          "n","o","p","q","r","s","t","u","v","w","x","y","z"}

UPPER == {"A","B","C","D","E","F","G","H","I","J","K","L","M",
          "N","O","P","Q","R","S","T","U","V","W","X","Y","Z"}

DIGIT == {"0","1","2","3","4","5","6","7","8","9"}

\* Two characters outside ASCII, both two bytes long in UTF-8: a letter and
\* a white space (char::is_whitespace holds of U+00A0).
NonAscii == {"U+00E9", "U+00A0"}

\* char::len_utf8
Utf8Len(c) == IF c \in NonAscii THEN 2 ELSE 1

\* char::is_whitespace
IsWhitespace(c) == c \in {" ", "\t", "\n", "\r", "U+00A0"}

\* str::len: the length in bytes
RECURSIVE ByteLen(_)
ByteLen(s) == IF s = <<>> THEN 0 ELSE Utf8Len(Head(s)) + ByteLen(Tail(s))

\* The (1-based) index of the character that starts at byte offset `position`
\* of `s`, or 0 when that offset is inside a character: there the slice
\* &code[position..] panics.
CharIndexAt(s, position) ==
    LET hits == {i \in 1..Len(s) : ByteLen(SubSeq(s, 1, i - 1)) = position}
    IN  IF hits = {} THEN 0 ELSE SetMin(hits)

(***************************************************************************)
(* Tokenizer: lexer, src/compile.rs 35-113                                 *)
(***************************************************************************)
\* The rules of token_specs, in their order.  A rule is a literal spelling
\* ("lit"), or one of the three classes.
token_specs ==
    << [t |-> "Let",        lit |-> <<"l","e","t">>],
       [t |-> "Print",      lit |-> <<"p","r","i","n","t">>],
       [t |-> "Method",     lit |-> <<"m","e","t","h","o","d">>],
       [t |-> "Fun",        lit |-> <<"f","u","n">>],
       [t |-> "Back",       lit |-> <<"b","a","c","k">>],
       [t |-> "Identifier", lit |-> <<>>],
       [t |-> "Number",     lit |-> <<>>],
       [t |-> "String",     lit |-> <<>>],
       [t |-> "Plus",       lit |-> <<"+">>],
       [t |-> "Minus",      lit |-> <<"-">>],
       [t |-> "Assign",     lit |-> <<"=">>],
       [t |-> "Semicolon",  lit |-> <<";">>],
       [t |-> "LParen",     lit |-> <<"(">>],
       [t |-> "RParen",     lit |-> <<")">>],
       [t |-> "LBrace",     lit |-> <<"{">>],
       [t |-> "RBrace",     lit |-> <<"}">>],
       [t |-> "Multiply",   lit |-> <<"*">>],
       [t |-> "Divide",     lit |-> <<"/">>],
       [t |-> "Mismatch",   lit |-> <<>>] >>

\* The end of the longest run of characters of S that starts at index i
\* (i - 1 when code[i] is not in S): a greedy class repetition.
RunEnd(code, i, S) ==
    SetMax({i - 1} \cup {j \in i..Len(code) : \A k \in i..j : code[k] \in S})

\* The number of characters rule r matches at index i of code, 0 for none.
MatchLen(r, code, i) ==
    CASE r.t = "Identifier" ->
           IF code[i] \in LOWER \cup UPPER \cup {"_"}
           THEN RunEnd(code, i + 1, LOWER \cup UPPER \cup DIGIT \cup {"_"}) - i + 1
           ELSE 0
      [] r.t = "Number" -> RunEnd(code, i, DIGIT) - i + 1
      [] r.t = "String" ->
           LET close == {j \in (i + 1)..Len(code) : code[j] = "\""}
           IN  IF code[i] = "\"" /\ close # {} THEN SetMin(close) - i + 1 ELSE 0
      [] r.t = "Mismatch" -> IF code[i] = "\n" THEN 0 ELSE 1
      [] OTHER ->
           IF i + Len(r.lit) - 1 <= Len(code)
              /\ SubSeq(code, i, i + Len(r.lit) - 1) = r.lit
           THEN Len(r.lit) ELSE 0

\* A plausible slip: the longest match among the rules instead of the first.
FirstMatchLongest(code, i) ==
    LET lens == {MatchLen(token_specs[k], code, i) : k \in 1..Len(token_specs)}
        best == SetMax(lens)
        k == SetMin({j \in 1..Len(token_specs) :
                        MatchLen(token_specs[j], code, i) = best})
    IN  [t |-> token_specs[k].t, len |-> best]

\* The alternation of line 58-62 matched at index i (leftmost-first: the
\* first rule, in order, that matches there), as find_map of line 86-93
\* reads it off the captures.
FirstMatch(code, i) ==
    LET k == SetMin({j \in 1..Len(token_specs) :
                        MatchLen(token_specs[j], code, i) > 0})
    IN  [t |-> token_specs[k].t, len |-> MatchLen(token_specs[k], code, i)]

\* The lexer's state before its loop (line 65-67).
LexStart(code) ==
    [code |-> code, position |-> 0, line |-> 1, tokens |-> <<>>,
     status |-> "run"]

\* One iteration of the loop of line 69-110.
LexIter(s) ==
    LET i == CharIndexAt(s.code, s.position) IN
    IF s.position >= ByteLen(s.code) THEN [s EXCEPT !.status = "ok"]
    ELSE IF i = 0 THEN [s EXCEPT !.status = "panic"]
    ELSE IF IsWhitespace(s.code[i]) THEN
        \* code.chars().nth(position): the character at that CHARACTER index
        IF s.position + 1 > Len(s.code) THEN [s EXCEPT !.status = "panic"]
        ELSE [s EXCEPT !.line = IF s.code[s.position + 1] = "\n"
                                 THEN s.line + 1 ELSE s.line,
                       !.position = s.position + 1]
    ELSE
        LET m == FirstMatch(s.code, i)
            value == SubSeq(s.code, i, i + m.len - 1)
        IN  IF m.t = "Mismatch" THEN [s EXCEPT !.status = "err"]
            ELSE [s EXCEPT !.tokens = Append(s.tokens,
                                 [type_ |-> m.t, value |-> value,
                                  line |-> s.line, position |-> s.position]),
                           !.position = s.position + ByteLen(value)]

RECURSIVE LexRun(_)
LexRun(s) == IF s.status # "run" THEN s ELSE LexRun(LexIter(s))

\* lexer(code): the state the loop ends in ("ok" with the tokens, "err", or
\* "panic").
lexer(code) == LexRun(LexStart(code))

(***************************************************************************)
(* AST nodes: enum ASTNode, src/compile.rs 139-178                          *)
(***************************************************************************)
MkLet(name, value) == [kind |-> "Let", name |-> name, value |-> value]

MkAssign(name, value) == [kind |-> "Assign", name |-> name, value |-> value]

\* Print's boxed expression is the field expr here (value in the source):
\* TLC cannot compare it with the text that Back, Number and String hold in
\* their field value.
MkPrint(value) == [kind |-> "Print", expr |-> value]

\* A Method as the parser builds it: HashMap::new() and None.
MkMethod(name, body) ==
    [kind |-> "Method", name |-> name, body |-> body,
     local_symbol_table |-> <<>>, return_value |-> None]

MkFun(name, body) == [kind |-> "Fun", name |-> name, body |-> body]

MkBack(value) == [kind |-> "Back", value |-> value]

MkCall(name, args) == [kind |-> "FunctionCall", name |-> name, args |-> args]

MkIdent(name) == [kind |-> "Identifier", name |-> name]

MkNumber(value) == [kind |-> "Number", value |-> value]

MkString(value) == [kind |-> "String", value |-> value]

(***************************************************************************)
(* Parser, src/compile.rs 180-452.  pos counts the tokens consumed, so the *)
(* current token is tokens[pos + 1].  Every method returns the record      *)
(* [ok, pos, val, err]: Ok(val) or Err(err), and the parser's pos after.   *)
(***************************************************************************)
POk(pos, val) == [ok |-> TRUE, pos |-> pos, val |-> Some(val), err |-> <<>>]

PErr(pos, err) == [ok |-> FALSE, pos |-> pos, val |-> None, err |-> err]

\* Parser::current_token
current_token(tokens, pos) ==
    IF pos < Len(tokens) THEN Some(tokens[pos + 1]) ELSE None

\* Parser::eat
eat(tokens, pos, expected_type) ==
    IF current_token(tokens, pos) # None
    THEN IF tokens[pos + 1].type_ = expected_type
         THEN POk(pos + 1, "unit")
         ELSE PErr(pos, <<"Expected", expected_type, tokens[pos + 1].type_>>)
    ELSE PErr(pos, <<"Expected", expected_type, "EOF">>)

\* The type of the current token, "EOF" when there is none.
TypeAt(tokens, pos) ==
    IF pos < Len(tokens) THEN tokens[pos + 1].type_ ELSE "EOF"

\* The ? operator: k continues from an Ok result, an Err is returned as is.
\* (v ranges over the one result r, so that r is evaluated once.)
Then(r, k(_)) == CHOOSE out \in {IF v.ok THEN k(v) ELSE v : v \in {r}} : TRUE

RECURSIVE parse_expression(_, _)
RECURSIVE parse_function_call(_, _, _)
RECURSIVE call_args_loop(_, _, _)
RECURSIVE parse_statement(_, _)
RECURSIVE body_loop(_, _, _)

\* Parser::parse_expression
parse_expression(tokens, pos) ==
    CASE TypeAt(tokens, pos) = "EOF" -> PErr(pos, <<"Unexpected EOF in expression">>)
      [] TypeAt(tokens, pos) = "Identifier" ->
           IF TypeAt(tokens, pos + 1) = "LParen"
           THEN parse_function_call(tokens, pos + 1, tokens[pos + 1].value)
           ELSE POk(pos + 1, MkIdent(tokens[pos + 1].value))
      [] TypeAt(tokens, pos) = "Number" -> POk(pos + 1, MkNumber(tokens[pos + 1].value))
      [] TypeAt(tokens, pos) = "String" -> POk(pos + 1, MkString(tokens[pos + 1].value))
      [] OTHER -> PErr(pos, <<"Unexpected token in expression", TypeAt(tokens, pos)>>)

\* A plausible slip: a token that is no separator is left to the next turn
\* of the loop instead of being required to be a "+".
after_argument_lenient(tokens, pos) ==
    CASE TypeAt(tokens, pos) \in {"Semicolon", "Plus"} -> POk(pos + 1, "unit")
      [] OTHER -> POk(pos, "unit")

\* What follows an argument in the loop of parse_function_call (line
\* 294-300): a ";" is eaten, anything but ")" or the end must be a "+".
after_argument(tokens, pos) ==
    CASE TypeAt(tokens, pos) = "Semicolon" -> eat(tokens, pos, "Semicolon")
      [] TypeAt(tokens, pos) \in {"EOF", "RParen"} -> POk(pos, "unit")
      [] OTHER -> eat(tokens, pos, "Plus")

\* The loop of parse_function_call (line 281-301): the arguments so far are
\* args; the result's val is the argument list at the loop's exit.
call_args_loop(tokens, pos, args) ==
    CASE TypeAt(tokens, pos) \in {"EOF", "RParen"} -> POk(pos, args)
      [] TypeAt(tokens, pos) = "Semicolon" -> call_args_loop(tokens, pos + 1, args)
      [] OTHER ->
           Then(parse_expression(tokens, pos), LAMBDA arg :
           Then(after_argument(tokens, arg.pos), LAMBDA sep :
           call_args_loop(tokens, sep.pos, Append(args, arg.val[1]))))

\* Parser::parse_function_call
parse_function_call(tokens, pos, func_name) ==
    Then(eat(tokens, pos, "LParen"), LAMBDA open :
    Then(call_args_loop(tokens, open.pos, <<>>), LAMBDA loop :
    Then(eat(tokens, loop.pos, "RParen"), LAMBDA close :
    POk(close.pos, MkCall(func_name, loop.val[1])))))

\* The name after a keyword (line 248-253, 310-315, 367-372): the current
\* token must be an Identifier, which is eaten; val is its text.
declared_name(tokens, pos, err) ==
    IF TypeAt(tokens, pos) # "Identifier" THEN PErr(pos, err)
    ELSE POk(pos + 1, tokens[pos + 1].value)

\* Parser::parse_let
parse_let(tokens, pos) ==
    Then(eat(tokens, pos, "Let"), LAMBDA kw :
    Then(declared_name(tokens, kw.pos, <<"Expected identifier after let">>), LAMBDA name :
    Then(eat(tokens, name.pos, "Assign"), LAMBDA eq :
    Then(parse_expression(tokens, eq.pos), LAMBDA value :
    Then(eat(tokens, value.pos, "Semicolon"), LAMBDA semi :
    POk(semi.pos, MkLet(name.val[1], value.val[1])))))))

\* Parser::parse_print
parse_print(tokens, pos) ==
    Then(eat(tokens, pos, "Print"), LAMBDA kw :
    Then(eat(tokens, kw.pos, "LParen"), LAMBDA open :
    Then(parse_expression(tokens, open.pos), LAMBDA expr :
    Then(eat(tokens, expr.pos, "RParen"), LAMBDA close :
    Then(eat(tokens, close.pos, "Semicolon"), LAMBDA semi :
    POk(semi.pos, MkPrint(expr.val[1])))))))

\* The match of parse_back (line 355-359) on the parsed expression.
back_value(pos, expr) ==
    CASE expr.kind = "Identifier" -> POk(pos, MkBack(expr.name))
      [] expr.kind = "Number" -> POk(pos, MkBack(expr.value))
      [] OTHER -> PErr(pos, <<"Invalid expression in back statement">>)

\* Parser::parse_back
parse_back(tokens, pos) ==
    Then(eat(tokens, pos, "Back"), LAMBDA kw :
    Then(parse_expression(tokens, kw.pos), LAMBDA expr :
    Then(eat(tokens, expr.pos, "Semicolon"), LAMBDA semi :
    back_value(semi.pos, expr.val[1]))))

\* The body loop of parse_method (line 320-332); parse_fun's (line 385-397)
\* is the same text.  The result's val is the body at the loop's exit.
body_loop(tokens, pos, body) ==
    CASE TypeAt(tokens, pos) \in {"EOF", "RBrace"} -> POk(pos, body)
      [] TypeAt(tokens, pos) = "Semicolon" -> body_loop(tokens, pos + 1, body)
      [] OTHER ->
           Then(parse_statement(tokens, pos), LAMBDA stmt :
           body_loop(tokens, stmt.pos, Append(body, stmt.val[1])))

\* The optional ";" after a declaration (line 336-340, 401-405).
optional_semicolon(tokens, pos) ==
    IF TypeAt(tokens, pos) = "Semicolon" THEN pos + 1 ELSE pos

\* Parser::parse_method
parse_method(tokens, pos) ==
    Then(eat(tokens, pos, "Method"), LAMBDA kw :
    Then(declared_name(tokens, kw.pos, <<"Expected method name">>), LAMBDA name :
    Then(eat(tokens, name.pos, "LBrace"), LAMBDA open :
    Then(body_loop(tokens, open.pos, <<>>), LAMBDA loop :
    Then(eat(tokens, loop.pos, "RBrace"), LAMBDA close :
    POk(optional_semicolon(tokens, close.pos),
        MkMethod(name.val[1], loop.val[1])))))))

\* The optional "(" ")" of parse_fun (line 375-380).
optional_parens(tokens, pos) ==
    IF TypeAt(tokens, pos) = "LParen"
    THEN eat(tokens, pos + 1, "RParen")
    ELSE POk(pos, "unit")

\* Parser::parse_fun
parse_fun(tokens, pos) ==
    Then(eat(tokens, pos, "Fun"), LAMBDA kw :
    Then(declared_name(tokens, kw.pos, <<"Expected function name">>), LAMBDA name :
    Then(optional_parens(tokens, name.pos), LAMBDA parens :
    Then(eat(tokens, parens.pos, "LBrace"), LAMBDA open :
    Then(body_loop(tokens, open.pos, <<>>), LAMBDA loop :
    Then(eat(tokens, loop.pos, "RBrace"), LAMBDA close :
    POk(optional_semicolon(tokens, close.pos),
        MkFun(name.val[1], loop.val[1]))))))))

\* The Identifier arm of parse_statement (line 419-437).  In its second
\* branch parse_function_call is entered at the identifier itself: nothing
\* has eaten it.
parse_identifier_statement(tokens, pos) ==
    IF pos + 1 < Len(tokens) /\ tokens[pos + 2].type_ = "Assign"
    THEN Then(eat(tokens, pos, "Identifier"), LAMBDA ident :
         Then(eat(tokens, ident.pos, "Assign"), LAMBDA eq :
         Then(parse_expression(tokens, eq.pos), LAMBDA value :
         Then(eat(tokens, value.pos, "Semicolon"), LAMBDA semi :
         POk(semi.pos, MkAssign(tokens[pos + 1].value, value.val[1]))))))
    ELSE Then(parse_function_call(tokens, pos, tokens[pos + 1].value), LAMBDA func_call :
         Then(eat(tokens, func_call.pos, "Semicolon"), LAMBDA semi :
         POk(semi.pos, func_call.val[1])))

\* Parser::parse_statement
parse_statement(tokens, pos) ==
    CASE TypeAt(tokens, pos) = "EOF" -> PErr(pos, <<"Unexpected EOF">>)
      [] TypeAt(tokens, pos) = "Let" -> parse_let(tokens, pos)
      [] TypeAt(tokens, pos) = "Print" -> parse_print(tokens, pos)
      [] TypeAt(tokens, pos) = "Method" -> parse_method(tokens, pos)
      [] TypeAt(tokens, pos) = "Fun" -> parse_fun(tokens, pos)
      [] TypeAt(tokens, pos) = "Back" -> parse_back(tokens, pos)
      [] TypeAt(tokens, pos) = "Identifier" -> parse_identifier_statement(tokens, pos)
      [] OTHER -> PErr(pos, <<"Unexpected token", TypeAt(tokens, pos)>>)

\* Parser::new, and the empty statement list of parse (line 443).
ParserNew(tokens) ==
    [tokens |-> tokens, pos |-> 0, statements |-> <<>>, status |-> "run",
     err |-> <<>>]

\* One test of the loop condition of Parser::parse (line 445-448), and one
\* iteration when it holds.
PushStatement(p, stmt) ==
    IF ~stmt.ok
    THEN [p EXCEPT !.status = "err", !.err = stmt.err, !.pos = stmt.pos]
    ELSE [p EXCEPT !.pos = stmt.pos,
                   !.statements = Append(p.statements, stmt.val[1])]

\* A plausible slip: the loop condition is off by one.
ParseIterStopsEarly(p) ==
    IF p.pos + 1 < Len(p.tokens)
    THEN PushStatement(p, parse_statement(p.tokens, p.pos))
    ELSE [p EXCEPT !.status = "ok"]

ParseIter(p) ==
    IF p.pos < Len(p.tokens)
    THEN PushStatement(p, parse_statement(p.tokens, p.pos))
    ELSE [p EXCEPT !.status = "ok"]

RECURSIVE ParseRun(_)
ParseRun(p) == IF p.status # "run" THEN p ELSE ParseRun(ParseIter(p))

\* Parser::new(tokens).parse()
parse(tokens) == ParseRun(ParserNew(tokens))

(***************************************************************************)
(* SemanticAnalyzer, src/compile.rs 454-552.                               *)
(*                                                                         *)
(* symbol_table and a Method's local_symbol_table are functions from names *)
(* to entries.  analyze_node works on a record a = [st, log]: the symbol   *)
(* table, and the events of the run so far (what was looked up, judged and *)
(* inserted, in order).  It returns [st, log, err, node]: the table and    *)
(* the events after, Err(err) or Ok, and the node as it is left (analysis  *)
(* writes into Method nodes in place).                                     *)
(***************************************************************************)
\* i32::MAX: the value type of local_symbol_table
I32Max == 2147483647

\* HashMap::insert
MapInsert(map, k, v) ==
    [n \in DOMAIN map \cup {k} |-> IF n = k THEN v ELSE map[n]]

\* HashMap::get
MapGet(map, k) == IF k \in DOMAIN map THEN Some(map[k]) ELSE None

DigitValue(c) == (CHOOSE k \in 1..10 : <<"0","1","2","3","4","5","6","7","8","9">>[k] = c) - 1

\* The checked accumulation of str::parse::<i32> over decimal digits: acc is
\* the value so far, None once it has overflowed.
RECURSIVE ParseDigits(_, _)
ParseDigits(text, acc) ==
    IF text = <<>> THEN Some(acc)
    ELSE IF acc > (I32Max - DigitValue(Head(text))) \div 10 THEN None
    ELSE ParseDigits(Tail(text), acc * 10 + DigitValue(Head(text)))

\* num_val.parse::<i32>() (line 481) on the text of a Number node.
ParseI32(text) ==
    IF text = <<>> \/ \E i \in 1..Len(text) : text[i] \notin DIGIT THEN None
    ELSE ParseDigits(text, 0)

AOk(a, node) == [st |-> a.st, log |-> a.log, err |-> None, node |-> node]

AErr(a, node, err) == [st |-> a.st, log |-> a.log, err |-> Some(err), node |-> node]

\* The record a with one more event.  entry is what the table holds for
\* the name when the event happens.
Logged(a, ev, name, verdict) ==
    [st |-> a.st,
     log |-> Append(a.log, [ev |-> ev, name |-> name, verdict |-> verdict,
                            entry |-> MapGet(a.st, name)])]

\* symbol_table.insert(name, entry), recorded as event ev.
Inserted(a, ev, name, entry) ==
    [st |-> MapInsert(a.st, name, entry),
     log |-> Logged(a, ev, name, "ok").log]

\* The analyzer's record after a result.
After(r) == [st |-> r.st, log |-> r.log]

\* A node with statement i of its body replaced.
WithStmt(node, i, stmt) == [node EXCEPT !.body[i] = stmt]

\* A plausible slip: the three checks of a call with the return-value check
\* left out.
call_verdict_no_return_check(st, name) ==
    IF name \notin DOMAIN st THEN "UndefinedFunction"
    ELSE IF st[name].kind = "Method" THEN "ok"
    ELSE "NotCallable"

\* The checks of the FunctionCall arm (line 502-512).
call_verdict(st, name) ==
    IF name \notin DOMAIN st THEN "UndefinedFunction"
    ELSE IF st[name].kind = "Method"
         THEN IF st[name].return_value = None THEN "NoReturnValue" ELSE "ok"
         ELSE "NotCallable"

\* The messages of line 503, 508, 511.
call_error(verdict, name) ==
    CASE verdict = "UndefinedFunction" -> <<"Undefined function", name>>
      [] verdict = "NoReturnValue" -> <<"Function has no return value", name>>
      [] verdict = "NotCallable" -> <<"is not a function", name>>

\* The match on a body statement that the Method arm makes after analyzing
\* it (line 478-489): what it does to the Method m, or the error.
after_body_statement(m, stmt) ==
    CASE stmt.kind = "Let" /\ stmt.value.kind = "Number" ->
           IF ParseI32(stmt.value.value) = None
           THEN [err |-> Some(<<"Invalid number", stmt.value.value>>), node |-> m]
           ELSE [err |-> None,
                 node |-> [m EXCEPT !.local_symbol_table =
                              MapInsert(@, stmt.name, ParseI32(stmt.value.value)[1])]]
      [] stmt.kind = "Back" ->
           [err |-> None, node |-> [m EXCEPT !.return_value = Some(stmt.value)]]
      [] OTHER -> [err |-> None, node |-> m]

RECURSIVE analyze_node(_, _)
RECURSIVE method_loop(_, _, _)
RECURSIVE method_step(_, _, _)
RECURSIVE method_match(_, _, _, _)
RECURSIVE fun_loop(_, _, _)
RECURSIVE fun_step(_, _, _)
RECURSIVE args_loop(_, _, _)
RECURSIVE args_step(_, _, _)

\* The loop of the Method arm (line 475-490) from statement i on, and the
\* insert after it (line 492).
method_loop(a, m, i) ==
    IF i > Len(m.body)
    THEN AOk(Inserted(a, "register", m.name, m), m)
    ELSE method_step(analyze_node(a, m.body[i]), m, i)

\* The rest of an iteration, given the result r of analyzing statement i.
method_step(r, m, i) ==
    IF r.err # None THEN [r EXCEPT !.node = WithStmt(m, i, r.node)]
    ELSE method_match(After(r), after_body_statement(WithStmt(m, i, r.node), r.node),
                      m, i)

method_match(a, e, m, i) ==
    IF e.err # None THEN AErr(a, e.node, e.err[1])
    ELSE method_loop(a, e.node, i + 1)

\* A plausible slip: a Fun entered in the symbol table like a Method.
fun_loop_registers(a, f, i) ==
    IF i > Len(f.body) THEN AOk(Inserted(a, "register", f.name, f), f)
    ELSE fun_step(analyze_node(a, f.body[i]), f, i)

\* The loop of the Fun arm (line 496-498).
fun_loop(a, f, i) ==
    IF i > Len(f.body) THEN AOk(a, f)
    ELSE fun_step(analyze_node(a, f.body[i]), f, i)

fun_step(r, f, i) ==
    IF r.err # None THEN [r EXCEPT !.node = WithStmt(f, i, r.node)]
    ELSE fun_loop(After(r), WithStmt(f, i, r.node), i + 1)

\* The loop over the arguments of a call (line 514-516).
args_loop(a, call, i) ==
    IF i > Len(call.args) THEN AOk(a, call)
    ELSE args_step(analyze_node(a, call.args[i]), call, i)

args_step(r, call, i) ==
    IF r.err # None THEN [r EXCEPT !.node = [call EXCEPT !.args[i] = r.node]]
    ELSE args_loop(After(r), [call EXCEPT !.args[i] = r.node], i + 1)

\* The FunctionCall arm (line 501-519).
analyze_call(a, node) ==
    IF call_verdict(a.st, node.name) # "ok"
    THEN AErr(Logged(a, "call", node.name, call_verdict(a.st, node.name)), node,
              call_error(call_verdict(a.st, node.name), node.name))
    ELSE args_loop(Logged(a, "call", node.name, "ok"), node, 1)

\* What the Assign arm does after its value is analyzed (line 523-530).
assign_after_value(r, node) ==
    IF r.err # None THEN [r EXCEPT !.node = [node EXCEPT !.value = r.node]]
    ELSE IF r.node.kind = "Identifier" /\ r.node.name \notin DOMAIN r.st
    THEN AErr(After(r), [node EXCEPT !.value = r.node],
              <<"Undefined variable", r.node.name>>)
    ELSE AOk(Inserted(After(r), "bind", node.name, MkIdent(node.name)),
             [node EXCEPT !.value = r.node])

\* What the Let arm does after its value is analyzed (line 534-535).
let_after_value(r, node) ==
    IF r.err # None THEN [r EXCEPT !.node = [node EXCEPT !.value = r.node]]
    ELSE AOk(Inserted(After(r), "bind", node.name, MkIdent(node.name)),
             [node EXCEPT !.value = r.node])

\* What the Print arm does after its value is analyzed (line 538-539).
print_after_value(r, node) == [r EXCEPT !.node = [node EXCEPT !.expr = r.node]]

\* A plausible slip: an Identifier expression that is not looked up.
analyze_identifier_unchecked(a, node) == AOk(Logged(a, "ident", node.name, "ok"), node)

\* The Identifier arm (line 542-547).
analyze_identifier(a, node) ==
    IF node.name \notin DOMAIN a.st
    THEN AErr(Logged(a, "ident", node.name, "UndefinedIdentifier"), node,
              <<"Undefined identifier", node.name>>)
    ELSE AOk(Logged(a, "ident", node.name, "ok"), node)

\* SemanticAnalyzer::analyze_node
analyze_node(a, node) ==
    CASE node.kind = "Method" -> method_loop(a, node, 1)
      [] node.kind = "Fun" -> fun_loop(a, node, 1)
      [] node.kind = "FunctionCall" -> analyze_call(a, node)
      [] node.kind = "Assign" -> assign_after_value(analyze_node(a, node.value), node)
      [] node.kind = "Let" -> let_after_value(analyze_node(a, node.value), node)
      [] node.kind = "Print" -> print_after_value(analyze_node(a, node.expr), node)
      [] node.kind = "Back" -> AOk(a, node)
      [] node.kind = "Identifier" -> analyze_identifier(a, node)
      [] node.kind = "Number" -> AOk(a, node)
      [] node.kind = "String" -> AOk(a, node)

\* SemanticAnalyzer::new, before analyze has looked at a node.  `before` is
\* the symbol table as it was when the last node's analysis began, `node`
\* that node as analysis left it and `log` the events of its analysis.
\* `funs` holds the names of the top-level Fun nodes analyzed so far: the
\* analyzer keeps no record of them, the claims about them need one.
AnalyzerNew ==
    [symbol_table |-> <<>>, before |-> <<>>, node |-> None, log |-> <<>>,
     status |-> "run", err |-> <<>>, funs |-> {}]

\* One iteration of the loop of analyze (line 466-468) on `node`.
IterResult(z, r) ==
    [symbol_table |-> r.st, before |-> z.symbol_table, node |-> Some(r.node),
     log |-> r.log,
     status |-> IF r.err = None THEN "run" ELSE "err",
     err |-> IF r.err = None THEN <<>> ELSE r.err[1],
     funs |-> IF r.err = None /\ r.node.kind = "Fun"
              THEN z.funs \cup {r.node.name} ELSE z.funs]

AnalyzeIter(z, node) ==
    IterResult(z, analyze_node([st |-> z.symbol_table, log |-> <<>>], node))

\* analyze (line 465-470) run to its end on `nodes`: Ok or the first error,
\* and the nodes as analysis left them.
RECURSIVE AnalyzeRun(_, _, _)

AnalyzeNext(r, nodes, i) ==
    IF r.status = "err"
    THEN [status |-> "err", err |-> r.err, nodes |-> [nodes EXCEPT ![i] = r.node[1]]]
    ELSE AnalyzeRun(r, [nodes EXCEPT ![i] = r.node[1]], i + 1)

AnalyzeRun(z, nodes, i) ==
    IF i > Len(nodes) THEN [status |-> "ok", err |-> <<>>, nodes |-> nodes]
    ELSE AnalyzeNext(AnalyzeIter(z, nodes[i]), nodes, i)

analyze(nodes) == AnalyzeRun(AnalyzerNew, nodes, 1)

(***************************************************************************)
(* Code generator, src/compile.rs 554-637.  Generated text is a sequence   *)
(* of characters, like source text.  generate_node_code has no failing     *)
(* path (every arm returns Ok), so it is modelled by the text it returns.  *)
(***************************************************************************)
\* "main" (line 560)
NameMain == <<"m", "a", "i", "n">>

\* "\nfn main() {\n}\n" (line 569)
EntryPoint == <<"\n", "f", "n", " ", "m", "a", "i", "n", "(", ")", " ", "{", "\n", "}", "\n">>

\* "    return 0;\n" (line 597)
DefaultReturn == <<" ", " ", " ", " ", "r", "e", "t", "u", "r", "n", " ", "0", ";", "\n">>

\* The indentation of a body line, "    " (line 592, 608)
Indent == <<" ", " ", " ", " ">>

RECURSIVE generate_node_code(_), body_lines(_, _), join_args(_, _)

\* The loops of line 590-593 and 606-609: format!("    {}\n", stmt_code)
\* for each statement of the body.
body_lines(body, i) ==
    IF i > Len(body) THEN <<>>
    ELSE Indent \o generate_node_code(body[i]) \o <<"\n">> \o body_lines(body, i + 1)

\* args_code.join(", ") (line 618-622)
join_args(args, i) ==
    IF i > Len(args) THEN <<>>
    ELSE (IF i > 1 THEN <<",", " ">> ELSE <<>>)
         \o generate_node_code(args[i]) \o join_args(args, i + 1)

\* A plausible slip: the scan for a Back descends into nested bodies.
RECURSIVE has_return_deep(_)
has_return_deep(body) ==
    \E i \in 1..Len(body) :
        \/ body[i].kind = "Back"
        \/ body[i].kind \in {"Method", "Fun"} /\ has_return_deep(body[i].body)

\* body.iter().any(|n| matches!(n, ASTNode::Back { .. })) (line 595)
has_return(body) == \E i \in 1..Len(body) : body[i].kind = "Back"

\* The Method arm (line 587-602)
generate_method(node) ==
    <<"f", "n", " ">> \o node.name \o <<"(", ")", " ", "-", ">", " ", "i", "3", "2", " ", "{", "\n">>
    \o body_lines(node.body, 1)
    \o (IF ~has_return(node.body) THEN DefaultReturn ELSE <<>>)
    \o <<"}">>

\* The Fun arm (line 603-613)
generate_fun(node) ==
    <<"f", "n", " ">> \o node.name \o <<"(", ")", " ", "{", "\n">>
    \o body_lines(node.body, 1)
    \o <<"}">>

\* A plausible slip: every Print in the formatted form.
generate_print_formatted(node) ==
    <<"p", "r", "i", "n", "t", "!", "(", "\"", "{", "}", "\"", ",", " ">> \o generate_node_code(node.expr) \o <<")", ";">>

\* A plausible slip: every Print in the literal form.
generate_print_literal(node) ==
    <<"p", "r", "i", "n", "t", "!", "(">> \o generate_node_code(node.expr) \o <<")", ";">>

\* The Print arm (line 580-586)
generate_print(node) ==
    IF node.expr.kind = "String"
    THEN <<"p", "r", "i", "n", "t", "!", "(">> \o generate_node_code(node.expr) \o <<")", ";">>
    ELSE <<"p", "r", "i", "n", "t", "!", "(", "\"", "{", "}", "\"", ",", " ">> \o generate_node_code(node.expr) \o <<")", ";">>

generate_node_code(node) ==
    CASE node.kind = "Let" ->
           <<"l", "e", "t", " ">> \o node.name \o <<" ", "=", " ">> \o generate_node_code(node.value) \o <<";">>
      [] node.kind = "Print" -> generate_print(node)
      [] node.kind = "Method" -> generate_method(node)
      [] node.kind = "Fun" -> generate_fun(node)
      [] node.kind = "Back" -> <<"r", "e", "t", "u", "r", "n", " ">> \o node.value \o <<";">>
      [] node.kind = "FunctionCall" ->
           node.name \o <<"(">> \o join_args(node.args, 1) \o <<")">>
      [] node.kind = "Identifier" -> node.name
      [] node.kind \in {"Number", "String"} -> node.value
      [] node.kind = "Assign" ->
           node.name \o <<" ", "=", " ">> \o generate_node_code(node.value) \o <<";">>

\* generate_code as it starts (line 555-556).  `i` is the node the loop is
\* at and `last` the text generate_node_code returned for the node before.
GenStart(nodes) ==
    [nodes |-> nodes, i |-> 1, code |-> <<>>, has_main |-> FALSE,
     last |-> <<>>, status |-> "run"]

\* A plausible slip: a Method named main counts as the entry point too.
is_main_fun_or_method(node) == node.kind \in {"Fun", "Method"} /\ node.name = NameMain

\* The test of line 559-563
is_main_fun(node) == node.kind = "Fun" /\ node.name = NameMain

\* One iteration of the loop of line 558-566, given the node's text.
GenPush(g, text) ==
    [g EXCEPT !.has_main = @ \/ is_main_fun(g.nodes[g.i]),
              !.code = @ \o text \o <<"\n">>,
              !.last = text,
              !.i = @ + 1]

GenIter(g) == GenPush(g, generate_node_code(g.nodes[g.i]))

\* After the loop (line 568-572)
GenFinish(g) ==
    [g EXCEPT !.code = IF ~g.has_main THEN @ \o EntryPoint ELSE @,
              !.status = "ok"]

RECURSIVE GenRun(_)
GenRun(g) ==
    IF g.status # "run" THEN g
    ELSE IF g.i <= Len(g.nodes) THEN GenRun(GenIter(g))
    ELSE GenRun(GenFinish(g))

\* generate_code(nodes): the text of Ok(code)
generate_code(nodes) == GenRun(GenStart(nodes)).code


(***************************************************************************)
(* build_project, src/main.rs 192-253.  b is the state of one build: `pc`  *)
(* the statement it is at, `content` the source text read, `tokens`, `ast` *)
(* and `code` the results of the pipeline stages, `file` the text this     *)
(* build has written to target/debug/main.rs (None while it has written    *)
(* nothing) and `ran` the steps that have run, in order, each with whether *)
(* it succeeded.                                                           *)
(***************************************************************************)
BuildStart ==
    [pc |-> "path", status |-> "run", content |-> <<>>, tokens |-> <<>>,
     ast |-> <<>>, code |-> <<>>, file |-> None, ran |-> <<>>]

Ran(stage, ok) == [stage |-> stage, ok |-> ok]

\* `?` on an Err, or bail!: build_project returns the error.
Failed(b, stage) ==
    [b EXCEPT !.status = "err", !.ran = Append(@, Ran(stage, FALSE))]

\* The step succeeded: on to the next statement.
Passed(b, stage, next) ==
    [b EXCEPT !.pc = next, !.ran = Append(@, Ran(stage, TRUE))]

\* if !x.exists() { bail!(..) } (line 195-197, 200-202, 206-208)
check_exists(b, stage, exists, next) ==
    IF exists THEN Passed(b, stage, next) ELSE Failed(b, stage)

\* fs::read_to_string(&main_ntf)? (line 212-213)
read_source(b, r) ==
    IF r = None THEN Failed(b, "read")
    ELSE [Passed(b, "read", "lex") EXCEPT !.content = r[1]]

\* compile::lexer(&ntf_content)? (line 215-216); a panic of the lexer ends
\* the process.
after_lexer(b, r) ==
    CASE r.status = "ok" -> [Passed(b, "lex", "parse") EXCEPT !.tokens = r.tokens]
      [] r.status = "err" -> Failed(b, "lex")
      [] OTHER -> [Failed(b, "lex") EXCEPT !.status = "panic"]

\* parser.parse()? (line 218-220)
after_parse(b, r) ==
    IF r.status = "ok"
    THEN [Passed(b, "parse", "analyze") EXCEPT !.ast = r.statements]
    ELSE Failed(b, "parse")

\* analyzer.analyze(&mut ast)? (line 222-224)
after_analyze(b, r) ==
    IF r.status = "ok"
    THEN [Passed(b, "analyze", "generate") EXCEPT !.ast = r.nodes]
    ELSE Failed(b, "analyze")

\* compile::generate_code(&ast)? (line 226-227): generate_code returns Ok
\* on every input.
after_generate(b, code) == [Passed(b, "generate", "mkdir") EXCEPT !.code = code]

\* fs::create_dir_all(&target_dir)? (line 229-231)
create_dir(b, ok) ==
    IF ok THEN Passed(b, "mkdir", "write") ELSE Failed(b, "mkdir")

\* A plausible slip: the result of fs::write is dropped.
write_generated_unchecked(b, ok) ==
    IF ok THEN [Passed(b, "write", "rustc") EXCEPT !.file = Some(b.code)]
    ELSE Passed(Failed(b, "write"), "write", "rustc")

\* fs::write(&main_rs_path, &generated_code)? (line 233-235)
write_generated(b, ok) ==
    IF ok THEN [Passed(b, "write", "rustc") EXCEPT !.file = Some(b.code)]
    ELSE Failed(b, "write")

\* Command::new("rustc")...output()? (line 238-244)
run_rustc(b, spawned) ==
    IF spawned THEN Passed(b, "rustc", "status") ELSE Failed(b, "rustc")

\* The check of the compiler's exit status and the return (line 246-252)
check_status(b, success) ==
    IF success THEN [Passed(b, "status", "done") EXCEPT !.status = "ok"]
    ELSE Failed(b, "status")


----------------------------------------------------------------------------
(***************************************************************************)
(* Specification of the tokenizer: a source text is drawn, then the loop   *)
(* runs one iteration at a time.                                           *)
(***************************************************************************)
MaxPieces == 3

Keywords == {token_specs[k].lit : k \in 1..5}

\* The pieces a source text is put together from: the keyword spellings,
\* single characters of each class, and two complete string literals.
LexPieces == Keywords \cup
             {<<"x">>, <<"_">>, <<"7">>, <<" ">>, <<"\n">>, <<"\"">>, <<"@">>,
              <<"U+00A0">>, <<"\"", "\n", "\"">>, <<"\"", "U+00E9", "\"">>}

LexInputs == {Flatten(ss) : ss \in SeqsUpTo(LexPieces, MaxPieces)}

InitLex ==
    /\ lx \in {LexStart(c) : c \in LexInputs}
    /\ ps = Idle /\ an = Idle /\ gn = Idle /\ bd = Idle

LexWhitespace ==
    /\ lx.status = "run"
    /\ LexIter(lx).status = "run"
    /\ LexIter(lx).tokens = lx.tokens
    /\ lx' = LexIter(lx)
    /\ UNCHANGED <<ps, an, gn, bd>>

LexToken ==
    /\ lx.status = "run"
    /\ LexIter(lx).status = "run"
    /\ LexIter(lx).tokens # lx.tokens
    /\ lx' = LexIter(lx)
    /\ UNCHANGED <<ps, an, gn, bd>>

LexReturn ==
    /\ lx.status = "run"
    /\ LexIter(lx).status \in {"ok", "err"}
    /\ lx' = LexIter(lx)
    /\ UNCHANGED <<ps, an, gn, bd>>

LexPanic ==
    /\ lx.status = "run"
    /\ LexIter(lx).status = "panic"
    /\ lx' = LexIter(lx)
    /\ UNCHANGED <<ps, an, gn, bd>>

NextLex == LexWhitespace \/ LexToken \/ LexReturn \/ LexPanic

SpecLex == InitLex /\ [][NextLex]_vars

\* The number of newline characters of code before byte offset `position`.
NewlinesBefore(code, position) ==
    Cardinality({i \in 1..Len(code) :
                    code[i] = "\n" /\ ByteLen(SubSeq(code, 1, i - 1)) < position})

\* C3: whenever lexer returns tokens, every token's line minus one is the
\* number of newline characters of the source before the token's position.
C3_LineCountsNewlines ==
    lx.status = "ok" =>
        \A k \in 1..Len(lx.tokens) :
            NewlinesBefore(lx.code, lx.tokens[k].position) = lx.tokens[k].line - 1

\* The texts of C4: a keyword spelling immediately followed by a non-empty
\* string of identifier characters.
IdentChars == LOWER \cup UPPER \cup DIGIT \cup {"_"}

IsPrefix(p, s) == Len(p) <= Len(s) /\ SubSeq(s, 1, Len(p)) = p

Rest(p, s) == SubSeq(s, Len(p) + 1, Len(s))

KeywordThenIdentChars(kw, code) ==
    /\ IsPrefix(kw.lit, code)
    /\ Len(code) > Len(kw.lit)
    /\ \A i \in 1..Len(code) : code[i] \in IdentChars

\* C4 as stated: such a text yields exactly the keyword token and one
\* Identifier token whose lexeme is the rest.
C4_KeywordThenOneIdentifier ==
    \A k \in 1..5 :
        (lx.status \in {"ok", "err", "panic"}
         /\ KeywordThenIdentChars(token_specs[k], lx.code)) =>
            /\ lx.status = "ok"
            /\ Len(lx.tokens) = 2
            /\ lx.tokens[1].type_ = token_specs[k].t
            /\ lx.tokens[2].type_ = "Identifier"
            /\ lx.tokens[2].value = Rest(token_specs[k].lit, lx.code)

\* C4 amended: such a text always starts with the keyword token (it is never
\* one Identifier token), and the rest is one Identifier token exactly when
\* it starts with a letter or an underscore and with no keyword spelling.
C4_KeywordSplit ==
    \A k \in 1..5 :
        (lx.status \in {"ok", "err", "panic"}
         /\ KeywordThenIdentChars(token_specs[k], lx.code)) =>
            LET s == Rest(token_specs[k].lit, lx.code) IN
            /\ lx.status = "ok"
            /\ Len(lx.tokens) >= 2
            /\ lx.tokens[1] = [type_ |-> token_specs[k].t,
                               value |-> token_specs[k].lit,
                               line |-> 1, position |-> 0]
            /\ lx.tokens[2].position = Len(token_specs[k].lit)
            /\ (/\ Len(lx.tokens) = 2
                /\ lx.tokens[2].type_ = "Identifier"
                /\ lx.tokens[2].value = s)
               <=> (/\ s[1] \notin DIGIT
                    /\ \A j \in 1..5 : ~IsPrefix(token_specs[j].lit, s))

C4_Witness ==
    /\ lx.status = "ok"
    /\ lx.code = <<"f","u","n","x","_">>
    /\ Len(lx.tokens) = 2
    /\ lx.tokens[2].value = <<"x","_">>

----------------------------------------------------------------------------
(***************************************************************************)
(* Specification of the parser: a token sequence is drawn, then the loop   *)
(* of Parser::parse runs one iteration at a time.                          *)
(***************************************************************************)
MaxTokens == 5

Tok(t, v) == [type_ |-> t, value |-> v, line |-> 1, position |-> 0]

ParseAlphabet ==
    {Tok("Identifier", <<"f">>), Tok("Number", <<"1">>),
     Tok("String", <<"\"", "s", "\"">>),
     Tok("LParen", <<"(">>), Tok("RParen", <<")">>),
     Tok("Semicolon", <<";">>), Tok("Assign", <<"=">>), Tok("Plus", <<"+">>),
     Tok("Let", <<"l","e","t">>), Tok("Fun", <<"f","u","n">>),
     Tok("LBrace", <<"{">>), Tok("RBrace", <<"}">>)}

InitParse ==
    /\ \E k \in 0..MaxTokens : \E t \in [1..k -> ParseAlphabet] : ps = ParserNew(t)
    /\ lx = Idle /\ an = Idle /\ gn = Idle /\ bd = Idle

ParseStatementOk ==
    /\ ps.status = "run"
    /\ ps.pos < Len(ps.tokens)
    /\ ParseIter(ps).status = "run"
    /\ ps' = ParseIter(ps)
    /\ UNCHANGED <<lx, an, gn, bd>>

ParseStatementErr ==
    /\ ps.status = "run"
    /\ ParseIter(ps).status = "err"
    /\ ps' = ParseIter(ps)
    /\ UNCHANGED <<lx, an, gn, bd>>

ParseReturn ==
    /\ ps.status = "run"
    /\ ParseIter(ps).status = "ok"
    /\ ps' = ParseIter(ps)
    /\ UNCHANGED <<lx, an, gn, bd>>

NextParse == ParseStatementOk \/ ParseStatementErr \/ ParseReturn

SpecParse == InitParse /\ [][NextParse]_vars

\* An argument list of simple arguments: each a number, a string or an
\* identifier, each optionally followed by one ";" or "+".
RECURSIVE IsSimpleArgs(_)
IsSimpleArgs(ts) ==
    \/ ts = <<>>
    \/ /\ Head(ts).type_ \in {"Number", "String", "Identifier"}
       /\ \/ IsSimpleArgs(Tail(ts))
          \/ /\ Len(ts) >= 2
             /\ ts[2].type_ \in {"Semicolon", "Plus"}
             /\ IsSimpleArgs(Tail(Tail(ts)))

\* The nodes of the arguments of such a list, in order.
RECURSIVE SimpleArgNodes(_)
SimpleArgNodes(ts) ==
    IF ts = <<>> THEN <<>>
    ELSE LET rest == SimpleArgNodes(Tail(ts)) IN
         CASE Head(ts).type_ = "Number" -> <<MkNumber(Head(ts).value)>> \o rest
           [] Head(ts).type_ = "String" -> <<MkString(Head(ts).value)>> \o rest
           [] Head(ts).type_ = "Identifier" -> <<MkIdent(Head(ts).value)>> \o rest
           [] OTHER -> rest

\* The token sequences IDENT "(" args ")" ";" with simple arguments.
IsCallStatement(ts) ==
    /\ Len(ts) >= 4
    /\ ts[1].type_ = "Identifier"
    /\ ts[2].type_ = "LParen"
    /\ ts[Len(ts) - 1].type_ = "RParen"
    /\ ts[Len(ts)].type_ = "Semicolon"
    /\ IsSimpleArgs(SubSeq(ts, 3, Len(ts) - 2))

\* C2: on a call statement at statement position parse_statement succeeds,
\* consumes every token and yields the FunctionCall of that name and of the
\* parsed arguments.
C2_CallStatementParses ==
    (ps.status \in {"ok", "err"} /\ IsCallStatement(ps.tokens)) =>
        /\ ps.status = "ok"
        /\ ps.pos = Len(ps.tokens)
        /\ ps.statements =
             <<MkCall(ps.tokens[1].value,
                      SimpleArgNodes(SubSeq(ps.tokens, 3, Len(ps.tokens) - 2)))>>

----------------------------------------------------------------------------
(***************************************************************************)
(* Specification of the analyzer: analyze is given its nodes one at a      *)
(* time.  After a node is analyzed the loop moves on (the node and its     *)
(* events are dropped from view), and analyze returns when the nodes end.  *)
(***************************************************************************)
MaxBody == 2

NameM == <<"m">>

NameX == <<"x">>

\* The statements that bodies are made of.
BodyStmts ==
    {MkBack(<<"1">>), MkBack(<<"2">>),
     MkLet(NameX, MkNumber(<<"1">>)),
     MkLet(NameX, MkCall(NameM, <<>>)),
     MkLet(NameM, MkNumber(<<"7">>)),
     MkPrint(MkIdent(NameX)),
     MkCall(NameM, <<MkIdent(NameX)>>),
     MkMethod(NameM, <<MkBack(<<"2">>)>>)}

Bodies == SeqsUpTo(BodyStmts, MaxBody)

\* let x = 2147483647 and let x = 2147483648: the largest literal that is
\* an i32, and the one after it.
LetI32Max ==
    MkLet(NameX, MkNumber(<<"2", "1", "4", "7", "4", "8", "3", "6", "4", "7">>))

LetPastI32Max ==
    MkLet(NameX, MkNumber(<<"2", "1", "4", "7", "4", "8", "3", "6", "4", "8">>))

\* Method bodies with these.
LargeLetBodies ==
    {<<LetI32Max>>, <<LetPastI32Max>>,
     <<MkLet(NameX, MkNumber(<<"1">>)), LetI32Max>>,
     <<LetI32Max, MkLet(NameM, MkNumber(<<"7">>))>>}

\* The nodes analyze is given: the statements above, an assignment, the
\* methods and funs named m with a body of them, and the methods with a
\* large literal.
AnalyzeNodes ==
    BodyStmts
    \cup {MkAssign(NameX, MkIdent(NameX)), MkAssign(NameX, MkCall(NameM, <<>>))}
    \cup {MkMethod(NameM, b) : b \in Bodies}
    \cup {MkMethod(NameM, b) : b \in LargeLetBodies}
    \cup {MkFun(NameM, b) : b \in Bodies}

InitAnalyze ==
    /\ an = AnalyzerNew
    /\ lx = Idle /\ ps = Idle /\ gn = Idle /\ bd = Idle

AnalyzeNodeOk ==
    /\ an.status = "run" /\ an.node = None
    /\ \E node \in AnalyzeNodes :
          /\ AnalyzeIter(an, node).status = "run"
          /\ an' = AnalyzeIter(an, node)
    /\ UNCHANGED <<lx, ps, gn, bd>>

AnalyzeNodeErr ==
    /\ an.status = "run" /\ an.node = None
    /\ \E node \in AnalyzeNodes :
          /\ AnalyzeIter(an, node).status = "err"
          /\ an' = AnalyzeIter(an, node)
    /\ UNCHANGED <<lx, ps, gn, bd>>

AnalyzeAdvance ==
    /\ an.status = "run" /\ an.node # None
    /\ an' = [an EXCEPT !.node = None, !.log = <<>>, !.before = an.symbol_table]
    /\ UNCHANGED <<lx, ps, gn, bd>>

AnalyzeReturn ==
    /\ an.status = "run" /\ an.node = None
    /\ an' = [an EXCEPT !.status = "ok"]
    /\ UNCHANGED <<lx, ps, gn, bd>>

NextAnalyze == AnalyzeNodeOk \/ AnalyzeNodeErr \/ AnalyzeAdvance \/ AnalyzeReturn

SpecAnalyze == InitAnalyze /\ [][NextAnalyze]_vars


\* The statements of a body that are Back statements, by index.
BackIndexes(body) == {i \in 1..Len(body) : body[i].kind = "Back"}

\* The node whose analysis the state shows, when it succeeded.
Analyzed(kind) ==
    /\ an.status = "run"
    /\ an.node # None
    /\ an.node[1].kind = kind

\* C1: after analyze, a Method with two or more Back statements among its
\* body's statements holds the payload of the first of them as
\* return_value, in the node and in its symbol-table entry.
C1_FirstBackWins ==
    (Analyzed("Method") /\ Cardinality(BackIndexes(an.node[1].body)) >= 2) =>
        LET first == an.node[1].body[SetMin(BackIndexes(an.node[1].body))].value IN
        /\ an.node[1].return_value = Some(first)
        /\ an.symbol_table[an.node[1].name].return_value = Some(first)

\* The events of the log that insert into the symbol table.
IsInsert(e) == e.ev \in {"bind", "register"}

\* The names inserted by the events before event j of the log.
InsertedBefore(j) == {an.log[k].name : k \in {k \in 1..(j - 1) : IsInsert(an.log[k])}}

IsMethodEntry(entry) == entry # None /\ entry[1].kind = "Method"

C6_FunCallNotCallable ==
    \A j \in 1..Len(an.log) :
        LET e == an.log[j] IN
        (e.ev = "call" /\ e.name \in an.funs /\ an.node[1].kind # "Fun"
         /\ e.entry = None) =>
            e.verdict \in {"NotCallable", "NoReturnValue"}

\* C6 amended: a call fails with UndefinedFunction exactly when its name is
\* absent from the symbol table, with NotCallable exactly when the entry is
\* not a Method, with NoReturnValue exactly when it is a Method with an
\* empty return_value, and the failure ends the analysis with that
\* diagnosis; and no Fun is ever entered in the symbol table (its entries
\* are Methods and variables), so a call to a name declared only as a Fun
\* fails with UndefinedFunction.
C6_CallDiagnosis ==
    /\ \A j \in 1..Len(an.log) :
          LET e == an.log[j] IN
          e.ev = "call" =>
              /\ e.verdict = "UndefinedFunction" <=> e.entry = None
              /\ e.verdict = "NotCallable" <=>
                     (e.entry # None /\ e.entry[1].kind # "Method")
              /\ e.verdict = "NoReturnValue" <=>
                     (IsMethodEntry(e.entry) /\ e.entry[1].return_value = None)
              /\ e.verdict # "ok" =>
                     /\ j = Len(an.log)
                     /\ an.status = "err"
                     /\ an.err =
                          CASE e.verdict = "UndefinedFunction" ->
                                 <<"Undefined function", e.name>>
                            [] e.verdict = "NotCallable" ->
                                 <<"is not a function", e.name>>
                            [] e.verdict = "NoReturnValue" ->
                                 <<"Function has no return value", e.name>>
              /\ (e.name \in an.funs /\ e.entry = None) =>
                     e.verdict = "UndefinedFunction"
    /\ \A n \in DOMAIN an.symbol_table :
          an.symbol_table[n].kind \in {"Method", "Identifier"}

\* A call, in a later node, to a name declared only as a Fun.
C6_Witness ==
    /\ an.status = "err"
    /\ an.node[1].kind # "Fun"
    /\ \E j \in 1..Len(an.log) :
          /\ an.log[j].ev = "call"
          /\ an.log[j].name \in an.funs
          /\ an.log[j].entry = None
          /\ an.log[j].verdict = "UndefinedFunction"

\* The names bound when event j of the log happens: those of the symbol
\* table as the node's analysis began, and those inserted since.
BoundAt(j) == DOMAIN an.before \cup InsertedBefore(j)

\* C7: every Identifier expression that analysis accepts names something
\* bound before it (by a Let, an Assign or a Method: the only inserts); an
\* Identifier expression that is not bound fails the analysis with the
\* undefined-identifier error, it is the last thing analyzed, nothing is
\* bound after it and analyze takes no further step.
C7_IdentifiersBound ==
    /\ \A j \in 1..Len(an.log) :
          LET e == an.log[j] IN
          /\ IsInsert(e) => an.node[1].kind \in {"Let", "Assign", "Method", "Fun"}
          /\ e.ev = "ident" =>
                /\ e.verdict = "ok" <=> e.name \in BoundAt(j)
                /\ e.verdict # "ok" =>
                      /\ j = Len(an.log)
                      /\ an.status = "err"
                      /\ an.err = <<"Undefined identifier", e.name>>
                      /\ DOMAIN an.symbol_table = BoundAt(j)
                      /\ ~ENABLED NextAnalyze
    /\ DOMAIN an.symbol_table = BoundAt(Len(an.log) + 1)
    /\ an.status = "ok" => an.node = None

\* An unbound identifier met after something was bound in the same node.
C7_Witness ==
    /\ an.status = "err"
    /\ an.err = <<"Undefined identifier", NameX>>
    /\ Len(an.log) >= 2
    /\ IsInsert(an.log[1])

\* The decimal numeral of a natural number.
RECURSIVE Decimal(_)
Decimal(n) ==
    LET digit == <<"0", "1", "2", "3", "4", "5", "6", "7", "8", "9">>[(n % 10) + 1] IN
    IF n < 10 THEN <<digit>> ELSE Append(Decimal(n \div 10), digit)

IsNumericLet(stmt) == stmt.kind = "Let" /\ stmt.value.kind = "Number"

\* C15: analysis of a Method whose body is made of Lets of numeric literals
\* succeeds, and its local table maps each name to the value of the (last)
\* literal bound to it; and in every Method analyzed the local table holds
\* the names of the numeric Lets of the body and no other.
C15_NumericLetsRecorded ==
    (an.node # None /\ an.node[1].kind = "Method") =>
        LET m == an.node[1] IN
        /\ (\A i \in 1..Len(m.body) : IsNumericLet(m.body[i])) =>
              /\ an.status = "run"
              /\ \A i \in 1..Len(m.body) :
                    (\A k \in (i + 1)..Len(m.body) : m.body[k].name # m.body[i].name) =>
                        /\ m.body[i].name \in DOMAIN m.local_symbol_table
                        /\ Decimal(m.local_symbol_table[m.body[i].name]) =
                              m.body[i].value.value
        /\ an.status = "run" =>
              DOMAIN m.local_symbol_table =
                 {m.body[i].name : i \in {k \in 1..Len(m.body) : IsNumericLet(m.body[k])}}

----------------------------------------------------------------------------
(***************************************************************************)
(* Specification of generate_code: a list of top-level nodes is drawn,     *)
(* then the loop runs one node at a time and the function returns.         *)
(***************************************************************************)
MaxNodes == 2

NameF == <<"f">>

Back0 == MkBack(<<"0">>)

Back1 == MkBack(<<"1">>)

LetX == MkLet(NameX, MkNumber(<<"1">>))

InnerMethod == MkMethod(NameM, <<Back1>>)

InnerFun == MkFun(NameF, <<Back1>>)

InnerMain == MkFun(NameMain, <<>>)

\* Method bodies: with and without a Back of their own, first or last, and
\* with a Back only inside a nested Method or Fun.
GenBodies ==
    {<<>>, <<Back1>>, <<Back0>>, <<LetX>>, <<LetX, Back1>>, <<Back1, LetX>>,
     <<InnerMethod>>, <<InnerFun>>, <<InnerMain>>, <<LetX, InnerMethod>>,
     <<InnerMethod, Back0>>}

GenNodes ==
    {MkMethod(NameM, b) : b \in GenBodies}
    \cup {MkMethod(NameMain, <<Back1>>), MkMethod(NameMain, <<>>),
          MkFun(NameMain, <<>>), MkFun(NameMain, <<LetX>>),
          MkFun(NameF, <<InnerMain>>), MkFun(NameF, <<>>),
          LetX, MkAssign(NameX, MkIdent(NameX)),
          MkPrint(MkString(<<"\"", "s", "\"">>)), MkPrint(MkIdent(NameX)),
          MkPrint(MkNumber(<<"1">>)), MkPrint(MkCall(NameM, <<MkIdent(NameX)>>)),
          MkCall(NameM, <<MkIdent(NameX), MkNumber(<<"1">>)>>)}

InitGen ==
    /\ gn \in {GenStart(nodes) : nodes \in SeqsUpTo(GenNodes, MaxNodes)}
    /\ lx = Idle /\ ps = Idle /\ an = Idle /\ bd = Idle

GenNode ==
    /\ gn.status = "run"
    /\ gn.i <= Len(gn.nodes)
    /\ gn' = GenIter(gn)
    /\ UNCHANGED <<lx, ps, an, bd>>

GenReturn ==
    /\ gn.status = "run"
    /\ gn.i > Len(gn.nodes)
    /\ gn' = GenFinish(gn)
    /\ UNCHANGED <<lx, ps, an, bd>>

NextGen == GenNode \/ GenReturn

SpecGen == InitGen /\ [][NextGen]_vars

IsFunMain(node) == node.kind = "Fun" /\ node.name = NameMain

HasTopLevelFunMain(nodes) == \E i \in 1..Len(nodes) : IsFunMain(nodes[i])

\* C9: when generate_code returns, every node's text having been emitted, it
\* appends the empty entry-point definition to the output if no top-level
\* node is a Fun named main, and appends nothing if one is.
C9_EntryPointAppended ==
    [][(gn.status = "run" /\ gn'.status = "ok") =>
          /\ gn.i > Len(gn.nodes)
          /\ gn'.code = IF HasTopLevelFunMain(gn.nodes)
                        THEN gn.code
                        ELSE gn.code \o EntryPoint]_vars

\* generate_code has returned for an input with a Method named main and a
\* Fun named main nested in another Fun, but no top-level Fun named main.
C9_Witness ==
    /\ gn.status = "ok"
    /\ ~HasTopLevelFunMain(gn.nodes)
    /\ \E i \in 1..Len(gn.nodes) :
          gn.nodes[i].kind = "Method" /\ gn.nodes[i].name = NameMain
    /\ \E i \in 1..Len(gn.nodes) :
          /\ gn.nodes[i].kind = "Fun"
          /\ \E k \in 1..Len(gn.nodes[i].body) : IsFunMain(gn.nodes[i].body[k])
    /\ SubSeq(gn.code, Len(gn.code) - Len(EntryPoint) + 1, Len(gn.code)) = EntryPoint

\* The number of line ends in a text.
Newlines(t) == Cardinality({k \in 1..Len(t) : t[k] = "\n"})

\* The number of lines the statements of a body take in a block.
RECURSIVE StatementLines(_, _)
StatementLines(body, i) ==
    IF i > Len(body) THEN 0
    ELSE Newlines(generate_node_code(body[i])) + 1 + StatementLines(body, i + 1)

EndsWith(t, suffix) ==
    /\ Len(suffix) <= Len(t)
    /\ SubSeq(t, Len(t) - Len(suffix) + 1, Len(t)) = suffix

HasDirectBack(node) == \E i \in 1..Len(node.body) : node.body[i].kind = "Back"

\* The node the loop has just generated text for.
LastNode == gn.nodes[gn.i - 1]

\* C10: the text generated for a Method is the header line, the lines of
\* its statements and the closing brace, with one more line, "return 0;",
\* last in the block, if and only if no statement of the Method's body is
\* itself a Back (a Back inside a nested Method or Fun does not count).
C10_DefaultReturn ==
    (gn.i > 1 /\ LastNode.kind = "Method") =>
        /\ ~HasDirectBack(LastNode) <=>
              /\ Newlines(gn.last) = StatementLines(LastNode.body, 1) + 2
              /\ EndsWith(gn.last, DefaultReturn \o <<"}">>)
        /\ HasDirectBack(LastNode) <=>
              Newlines(gn.last) = StatementLines(LastNode.body, 1) + 1

\* A Method whose only Back is inside a nested Method or Fun got the
\* synthesized return.
C10_Witness ==
    /\ gn.i > 1
    /\ LastNode.kind = "Method"
    /\ ~HasDirectBack(LastNode)
    /\ \E k \in 1..Len(LastNode.body) :
          /\ LastNode.body[k].kind \in {"Method", "Fun"}
          /\ HasDirectBack(LastNode.body[k])
    /\ EndsWith(gn.last, DefaultReturn \o <<"}">>)

----------------------------------------------------------------------------
(***************************************************************************)
(* Specification of build_project: one build, one statement at a time.     *)
(* What the file system and the compiler answer is up to the environment.  *)
(***************************************************************************)
MaxStatements == 2

\* The statements the text of src/main.ntf is put together from: some that
\* pass every stage, one that the tokenizer refuses ("@"), one that it
\* panics on (a no-break space), some that the parser refuses and one that
\* only the analyzer refuses.
BuildPieces ==
    {<<"l", "e", "t", " ", "x", " ", "=", " ", "1", ";", "\n">>,
     <<"p", "r", "i", "n", "t", "(", "x", ")", ";", "\n">>,
     <<"f", "u", "n", " ", "m", "a", "i", "n", " ", "{", " ", "}", "\n">>,
     <<"m", "e", "t", "h", "o", "d", " ", "m", " ", "{", " ", "b", "a", "c", "k", " ", "1", ";", " ", "}", "\n">>,
     <<"@">>,
     <<"l", "e", "t">>,
     <<"U+00A0">>,
     <<"p", "r", "i", "n", "t", "(", "y", ")", ";", "\n">>}

\* The sample program of main, src/compile.rs line 640
EndToEndSource ==
    <<"f", "u", "n", " ", "m", "a", "i", "n", "(", ")", " ", "{", " ",
     "l", "e", "t", " ", "x", " ", "=", " ", "\"", "5", "\"", ";", " ",
     "p", "r", "i", "n", "t", "(", "x", ")", ";", " ", "}">>

BuildSources ==
    {Flatten(ss) : ss \in SeqsUpTo(BuildPieces, MaxStatements)}
    \cup {EndToEndSource}

InitBuild ==
    /\ bd = BuildStart
    /\ lx = Idle /\ ps = Idle /\ an = Idle /\ gn = Idle

BuildCheckPath ==
    /\ bd.status = "run" /\ bd.pc = "path"
    /\ \E exists \in BOOLEAN : bd' = check_exists(bd, "path", exists, "toml")
    /\ UNCHANGED <<lx, ps, an, gn>>

BuildCheckToml ==
    /\ bd.status = "run" /\ bd.pc = "toml"
    /\ \E exists \in BOOLEAN : bd' = check_exists(bd, "toml", exists, "main_ntf")
    /\ UNCHANGED <<lx, ps, an, gn>>

BuildCheckMain ==
    /\ bd.status = "run" /\ bd.pc = "main_ntf"
    /\ \E exists \in BOOLEAN : bd' = check_exists(bd, "main_ntf", exists, "read")
    /\ UNCHANGED <<lx, ps, an, gn>>

BuildRead ==
    /\ bd.status = "run" /\ bd.pc = "read"
    /\ \E r \in {None} \cup {Some(c) : c \in BuildSources} : bd' = read_source(bd, r)
    /\ UNCHANGED <<lx, ps, an, gn>>

BuildLex ==
    /\ bd.status = "run" /\ bd.pc = "lex"
    /\ bd' = after_lexer(bd, lexer(bd.content))
    /\ UNCHANGED <<lx, ps, an, gn>>

BuildParse ==
    /\ bd.status = "run" /\ bd.pc = "parse"
    /\ bd' = after_parse(bd, parse(bd.tokens))
    /\ UNCHANGED <<lx, ps, an, gn>>

BuildAnalyze ==
    /\ bd.status = "run" /\ bd.pc = "analyze"
    /\ bd' = after_analyze(bd, analyze(bd.ast))
    /\ UNCHANGED <<lx, ps, an, gn>>

BuildGenerate ==
    /\ bd.status = "run" /\ bd.pc = "generate"
    /\ bd' = after_generate(bd, generate_code(bd.ast))
    /\ UNCHANGED <<lx, ps, an, gn>>

BuildCreateDir ==
    /\ bd.status = "run" /\ bd.pc = "mkdir"
    /\ \E ok \in BOOLEAN : bd' = create_dir(bd, ok)
    /\ UNCHANGED <<lx, ps, an, gn>>

BuildWrite ==
    /\ bd.status = "run" /\ bd.pc = "write"
    /\ \E ok \in BOOLEAN : bd' = write_generated(bd, ok)
    /\ UNCHANGED <<lx, ps, an, gn>>

BuildRustc ==
    /\ bd.status = "run" /\ bd.pc = "rustc"
    /\ \E spawned \in BOOLEAN : bd' = run_rustc(bd, spawned)
    /\ UNCHANGED <<lx, ps, an, gn>>

BuildStatus ==
    /\ bd.status = "run" /\ bd.pc = "status"
    /\ \E success \in BOOLEAN : bd' = check_status(bd, success)
    /\ UNCHANGED <<lx, ps, an, gn>>

NextBuild ==
    \/ BuildCheckPath \/ BuildCheckToml \/ BuildCheckMain \/ BuildRead
    \/ BuildLex \/ BuildParse \/ BuildAnalyze \/ BuildGenerate
    \/ BuildCreateDir \/ BuildWrite \/ BuildRustc \/ BuildStatus

SpecBuild == InitBuild /\ [][NextBuild]_vars

\* The stages of the claim, in the order it gives them.
StageOrder == <<"lex", "parse", "analyze", "generate", "write", "rustc">>

\* The names of the steps that have run, in order.
RanStages == [k \in 1..Len(bd.ran) |-> bd.ran[k].stage]

IsClaimedStage(stage) == \E k \in 1..Len(StageOrder) : StageOrder[k] = stage

HasPassed(stage) == \E k \in 1..Len(bd.ran) : bd.ran[k] = Ran(stage, TRUE)

\* C8: the stages that have run are an initial part of lex, parse, analyze,
\* generate, write, rustc, in this order; a step that fails is the last
\* step of the build, which has then ended with the error; the generated
\* file has been written only if lex, parse, analyze and generate all
\* succeeded, and it holds the generated text; and the compiler has been
\* invoked only if that file was written before.
C8_StageOrder ==
    /\ IsPrefix(SelectSeq(RanStages, IsClaimedStage), StageOrder)
    /\ \A k \in 1..Len(bd.ran) :
          ~bd.ran[k].ok =>
              /\ k = Len(bd.ran)
              /\ bd.status \in {"err", "panic"}
              /\ ~ENABLED NextBuild
    /\ bd.file # None =>
          /\ \A k \in 1..4 : HasPassed(StageOrder[k])
          /\ bd.file = Some(bd.code)
          /\ bd.code = generate_code(bd.ast)
    /\ (\E k \in 1..Len(bd.ran) : bd.ran[k].stage = "rustc") =>
          /\ HasPassed("write")
          /\ bd.file = Some(bd.code)

\* A build that went through every stage: the compiler was invoked on the
\* generated text of a source that is not empty.
C8_Witness ==
    /\ \E k \in 1..Len(bd.ran) : bd.ran[k].stage = "rustc"
    /\ bd.content # <<>>
    /\ bd.file = Some(bd.code)
    /\ bd.status = "ok"

\* A build of the sample program that has come to a stage's result.
EndToEndAfter(stage) ==
    /\ bd.content = EndToEndSource
    /\ \E k \in 1..Len(bd.ran) : bd.ran[k].stage = stage

AllFourPass ==
    \A k \in 1..4 : EndToEndAfter(StageOrder[k]) => HasPassed(StageOrder[k])

\* C11 as stated: for the sample program lex, parse, analyze and generate
\* all succeed, and the generated text is a main procedure with the
\* let-binding of x to "5" and the literal-print form of x, print!(x), and
\* no entry point after it.
C11_EndToEndLiteralPrint ==
    /\ AllFourPass
    /\ EndToEndAfter("generate") =>
          bd.code =
            <<"f", "n", " ", "m", "a", "i", "n", "(", ")", " ", "{", "\n", " ",
            " ", " ", " ", "l", "e", "t", " ", "x", " ", "=", " ", "\"", "5", "\"",
            ";", "\n", " ", " ", " ", " ", "p", "r", "i", "n", "t", "!", "(", "x",
            ")", ";", "\n", "}", "\n">>

\* C11 amended: as above, but x is printed in the formatted-print form,
\* print!("{}", x).
C11_EndToEnd ==
    /\ AllFourPass
    /\ EndToEndAfter("generate") =>
          bd.code =
            <<"f", "n", " ", "m", "a", "i", "n", "(", ")", " ", "{", "\n", " ",
            " ", " ", " ", "l", "e", "t", " ", "x", " ", "=", " ", "\"", "5", "\"",
            ";", "\n", " ", " ", " ", " ", "p", "r", "i", "n", "t", "!", "(",
            "\"", "{", "}", "\"", ",", " ", "x", ")", ";", "\n", "}", "\n">>

\* The sample program has been through the generator.
C11_Witness ==
    /\ EndToEndAfter("generate")
    /\ bd.ast # <<>>
    /\ bd.code # <<>>

\* print!(<text>);
LiteralPrint(text) == <<"p", "r", "i", "n", "t", "!", "(">> \o text \o <<")", ";">>

\* print!("{}", <text>);
FormattedPrint(text) ==
    <<"p", "r", "i", "n", "t", "!", "(", "\"", "{", "}", "\"", ",", " ">>
    \o text \o <<")", ";">>

\* The text an expression is rendered to.
Rendered(expr) ==
    CASE expr.kind = "Identifier" -> expr.name
      [] expr.kind \in {"Number", "String"} -> expr.value
      [] OTHER -> generate_node_code(expr)

\* C12: the text generated for a Print is the literal form
\* print!(<text>); exactly when the printed expression is a String node,
\* and the formatted form print!("{}", <text>); exactly when it is not,
\* <text> being the rendered expression.
C12_PrintShape ==
    (gn.i > 1 /\ LastNode.kind = "Print") =>
        /\ LastNode.expr.kind = "String" <=>
              gn.last = LiteralPrint(Rendered(LastNode.expr))
        /\ LastNode.expr.kind # "String" <=>
              gn.last = FormattedPrint(Rendered(LastNode.expr))

\* A Print of a call has been generated, in the formatted form.
C12_Witness ==
    /\ gn.i > 1
    /\ LastNode.kind = "Print"
    /\ LastNode.expr.kind = "FunctionCall"
    /\ gn.last = FormattedPrint(generate_node_code(LastNode.expr))

----------------------------------------------------------------------------
(***************************************************************************)
(* Specification of the parser on declarations and calls: the token        *)
(* sequence is put together from the parts of method and fun declarations, *)
(* or is an assignment of a call whose argument list is put together from  *)
(* arguments, separators and other tokens; then Parser::parse runs as in   *)
(* SpecParse.                                                              *)
(***************************************************************************)
MaxDeclPieces == 5

MaxArgPieces == 5

TokF == Tok("Identifier", <<"f">>)

TokLParen == Tok("LParen", <<"(">>)

TokRParen == Tok("RParen", <<")">>)

TokLBrace == Tok("LBrace", <<"{">>)

TokRBrace == Tok("RBrace", <<"}">>)

TokSemicolon == Tok("Semicolon", <<";">>)

TokNumber == Tok("Number", <<"1">>)

TokString == Tok("String", <<"\"", "s", "\"">>)

\* let f = 1 ;
LetTokens ==
    <<Tok("Let", <<"l", "e", "t">>), TokF, Tok("Assign", <<"=">>), TokNumber,
      TokSemicolon>>

DeclPieces ==
    {<<Tok("Method", <<"m", "e", "t", "h", "o", "d">>), TokF>>,
     <<Tok("Fun", <<"f", "u", "n">>), TokF>>,
     <<TokLParen, TokRParen>>, <<TokLBrace>>, <<TokRBrace>>, <<TokSemicolon>>,
     LetTokens}

\* f = f (
CallPrefix == <<TokF, Tok("Assign", <<"=">>), TokF, TokLParen>>

ArgPieces ==
    {<<TokNumber>>, <<TokString>>, <<TokF>>, <<Tok("Plus", <<"+">>)>>,
     <<TokSemicolon>>, <<TokRParen>>, <<TokLBrace>>, <<TokF, TokLParen>>}

InitParseForms ==
    /\ \/ \E k \in 0..MaxDeclPieces : \E ss \in [1..k -> DeclPieces] :
             ps = ParserNew(Flatten(ss))
       \/ \E k \in 0..MaxArgPieces : \E ss \in [1..k -> ArgPieces] :
             ps = ParserNew(CallPrefix \o Flatten(ss))
    /\ lx = Idle /\ an = Idle /\ gn = Idle /\ bd = Idle

SpecParseForms == InitParseForms /\ [][NextParse]_vars

\* keyword IDENT, "(" ")" or not, "{" body "}", ";" or not
DeclForm(kw, parens, body, semi) ==
    <<Tok(kw, IF kw = "Method" THEN <<"m", "e", "t", "h", "o", "d">>
                                ELSE <<"f", "u", "n">>), TokF>>
    \o (IF parens THEN <<TokLParen, TokRParen>> ELSE <<>>)
    \o <<TokLBrace>> \o body \o <<TokRBrace>>
    \o (IF semi THEN <<TokSemicolon>> ELSE <<>>)

\* C13: a method declaration and a fun declaration, with or without "(" ")"
\* after the name and with or without ";" after "}", are parsed to the
\* Method or Fun of that name and body.
C13_DeclarationForms ==
    \A kw \in {"Method", "Fun"} : \A parens \in BOOLEAN : \A semi \in BOOLEAN :
    \A withLet \in BOOLEAN :
        (/\ ps.status \in {"ok", "err"}
         /\ ps.tokens = DeclForm(kw, parens, IF withLet THEN LetTokens ELSE <<>>, semi)) =>
            /\ ps.status = "ok"
            /\ ps.pos = Len(ps.tokens)
            /\ ps.statements =
                 LET body == IF withLet THEN <<MkLet(<<"f">>, MkNumber(<<"1">>))>>
                             ELSE <<>> IN
                 <<IF kw = "Method" THEN MkMethod(<<"f">>, body)
                   ELSE MkFun(<<"f">>, body)>>

IsSimpleArg(tok) == tok.type_ \in {"Number", "String", "Identifier"}

IsSeparator(tok) == tok.type_ \in {"Semicolon", "Plus"}

\* Simple arguments, each but the last followed by one separator, the last
\* followed by one or by none.
RECURSIVE IsSeparatedArgs(_)
IsSeparatedArgs(ts) ==
    \/ ts = <<>>
    \/ /\ IsSimpleArg(Head(ts))
       /\ \/ Len(ts) = 1
          \/ /\ IsSeparator(ts[2])
             /\ IsSeparatedArgs(Tail(Tail(ts)))

\* The tokens after the "(" of the call.
AfterCallPrefix == SubSeq(ps.tokens, Len(CallPrefix) + 1, Len(ps.tokens))

IsCallInput ==
    /\ ps.status \in {"ok", "err"}
    /\ Len(ps.tokens) >= Len(CallPrefix)
    /\ SubSeq(ps.tokens, 1, Len(CallPrefix)) = CallPrefix

\* C14: in `f = f ( ... ) ;` with simple arguments, each followed by ")",
\* ";" or "+", the call's args are the arguments in source order and hold
\* no separator; a call as argument is parsed to a call in args; and an
\* argument followed by any other token (one that does not make the
\* argument a call) is the parse error that expected "+", at that token.
C14_ArgumentSeparators ==
    IsCallInput =>
        LET rest == AfterCallPrefix
            n == Len(rest) IN
        /\ (/\ n >= 2
            /\ rest[n - 1].type_ = "RParen"
            /\ rest[n].type_ = "Semicolon"
            /\ IsSeparatedArgs(SubSeq(rest, 1, n - 2))) =>
               /\ ps.status = "ok"
               /\ ps.statements =
                    <<MkAssign(<<"f">>,
                        MkCall(<<"f">>, SimpleArgNodes(SubSeq(rest, 1, n - 2))))>>
        /\ rest = <<TokF, TokLParen, TokNumber, TokRParen, TokRParen, TokSemicolon>> =>
               ps.statements =
                    <<MkAssign(<<"f">>,
                        MkCall(<<"f">>, <<MkCall(<<"f">>, <<MkNumber(<<"1">>)>>)>>))>>
        /\ \A k \in 1..(n - 1) :
              (/\ IsSeparatedArgs(SubSeq(rest, 1, k - 1))
               /\ (k = 1 \/ IsSeparator(rest[k - 1]))
               /\ IsSimpleArg(rest[k])
               /\ ~IsSeparator(rest[k + 1])
               /\ rest[k + 1].type_ # "RParen"
               /\ ~(rest[k].type_ = "Identifier" /\ rest[k + 1].type_ = "LParen")) =>
                  /\ ps.status = "err"
                  /\ ps.err = <<"Expected", "Plus", rest[k + 1].type_>>
                  /\ ps.pos = Len(CallPrefix) + k

\* f = f ( 1 + "s" ) ; has been parsed: two arguments, no separator.
C14_Witness ==
    /\ ps.status = "ok"
    /\ ps.tokens = CallPrefix \o <<TokNumber, Tok("Plus", <<"+">>), TokString,
                                   TokRParen, TokSemicolon>>
    /\ ps.statements[1].value.args = <<MkNumber(<<"1">>), MkString(<<"\"", "s", "\"">>)>>

MaxLivePieces == 3

\* Larger parts, so that a few make statements with loops in them:
\* let f = 1 ;   method f {   fun f ( ) {   }   ;   f = f (   1   +   ) ;
\* and f (
LivePieces ==
    {LetTokens,
     <<Tok("Method", <<"m", "e", "t", "h", "o", "d">>), TokF, TokLBrace>>,
     <<Tok("Fun", <<"f", "u", "n">>), TokF, TokLParen, TokRParen, TokLBrace>>,
     <<TokRBrace>>, <<TokSemicolon>>, CallPrefix, <<TokNumber>>,
     <<Tok("Plus", <<"+">>)>>, <<TokRParen, TokSemicolon>>, <<TokF, TokLParen>>}

InitParseLive ==
    /\ \E k \in 0..MaxLivePieces : \E ss \in [1..k -> LivePieces] :
          ps = ParserNew(Flatten(ss))
    /\ lx = Idle /\ an = Idle /\ gn = Idle /\ bd = Idle

\* Parser::parse is a loop with nothing to wait for: it runs until it
\* returns.
SpecParseLive == InitParseLive /\ [][NextParse]_vars /\ WF_vars(NextParse)

\* A result that started at pos p: pos has not decreased, is within the
\* tokens, and has advanced if the result is Ok.
Advances(r, p, n) == r.pos >= p /\ r.pos <= n /\ (r.ok => r.pos > p)

\* A loop's result that started at pos p: pos has not decreased and is
\* within the tokens.
StaysInRange(r, p, n) == r.pos >= p /\ r.pos <= n

\* What the turns of the loops of parse, parse_method, parse_fun and
\* parse_function_call are made of, from every position of the tokens: a
\* statement or an expression that is parsed advances pos, and the loops
\* end with pos within the tokens.
LoopsAdvance ==
    \A p \in 0..Len(ps.tokens) :
        /\ Advances(parse_statement(ps.tokens, p), p, Len(ps.tokens))
        /\ Advances(parse_expression(ps.tokens, p), p, Len(ps.tokens))
        /\ StaysInRange(body_loop(ps.tokens, p, <<>>), p, Len(ps.tokens))
        /\ StaysInRange(call_args_loop(ps.tokens, p, <<>>), p, Len(ps.tokens))

\* C16: pos never decreases and never exceeds the number of tokens; every
\* turn of the loop of parse that does not fail advances pos, and so do the
\* statements and expressions the inner loops parse; parse returns Ok only
\* with pos at the end of the tokens; and parse always ends, with Ok or
\* with an error.
C16_ParseTerminates ==
    /\ [](ps.pos <= Len(ps.tokens))
    /\ [](ps.pos = 0 => LoopsAdvance)
    /\ [](ps.status = "ok" => ps.pos = Len(ps.tokens))
    /\ [][/\ ps'.pos >= ps.pos
          /\ ps'.tokens = ps.tokens
          /\ ps'.statements # ps.statements => ps'.pos > ps.pos
          /\ ps.status = "run"]_vars
    /\ <>(ps.status \in {"ok", "err"})

\* parse has returned Ok on a declaration with a statement in its body:
\* the loops of parse and of the declaration have turned.
C16_Witness ==
    /\ ps.status = "ok"
    /\ ps.statements # <<>>
    /\ ps.statements[1].kind \in {"Method", "Fun"}
    /\ ps.statements[1].body # <<>>
    /\ ps.pos = Len(ps.tokens)

====
